---- MODULE Spec2Model ----
(***************************************************************************)
(* The concurrent export-and-download engine of the Confluence exporter.   *)
(*                                                                         *)
(* Two realizations share one state machine:                               *)
(*   impl = "async"  : ConfluenceAsyncExporter (export_confluence_html_    *)
(*                     async.py), coroutines bounded by asyncio.Semaphore  *)
(*   impl = "thread" : ConfluenceExporter (export_confluence_html.py),     *)
(*                     a ThreadPoolExecutor of max_workers threads         *)
(*                                                                         *)
(* A behaviour is a sequence of process invocations (runs).  Each run      *)
(* loads export_cache.json, runs one Export Task per item of               *)
(* spaces_to_export, aggregates the outcomes in completion order and       *)
(* returns (successful_exports, failed_spaces).                            *)
(*                                                                         *)
(*   Spec          the engine, from the filtered work set to the exit      *)
(*   FairSpec      one run of the engine under fair scheduling             *)
(*   SigintSpec    one run of the engine that an operator may interrupt    *)
(*   DiscoverySpec export_all_spaces from the paging calls to the tasks    *)
(*   DiscoveryFairSpec  the same, with a remote that answers every call    *)
(*   AllowListSpec a run with --spaces, from the paging calls to the exit  *)
(*   NamingSpec    the name of the output file of a space                  *)
(***************************************************************************)
EXTENDS Integers, Sequences, FiniteSets, TLC

VARIABLES
    impl,               \* which realization runs
    max_workers,        \* concurrency bound N (max_workers / max_concurrent)
    spaces_to_export,   \* the filtered work set, a sequence of space keys
    now,                \* time.time(), in ticks of TickSeconds seconds
    run,                \* index of the current process invocation
    export_cache,       \* self.export_cache, the in-memory Cache Store
    cache_file,         \* content of export_cache.json on disk
    semaphore,          \* free permits of self.semaphore (async)
    idle_workers,       \* threads of the executor not running a task (thread)
    task,               \* per Export Task: control state and local variables
    completed,          \* finished futures not yet yielded by as_completed
    successful_exports, \* aggregator: success count
    failed_spaces,      \* aggregator: ordered list of failed keys
    observed,           \* aggregator: loop iterations done (progress bar)
    phase,              \* "running", "returned" (export_all_spaces returned),
                        \* "shutdown" (the executor is shut down on the way
                        \* out of an interrupted loop) or "exited" (the
                        \* process ended)
    exit_code,          \* the status the process ended with, None before
    unclean,            \* history: cache keys committed after a download
                        \* that was not clean
    inventory,          \* the spaces of the Confluence instance, in the order
                        \* get_all_spaces lists them
    specific_spaces,    \* the keys of --spaces, None without the option
    include_personal,   \* --personal or the configuration's include_personal
    include_archived,   \* --archived or the configuration's include_archived
    all_spaces,         \* discovery: the spaces fetched so far
    start,              \* discovery: offset of the next page
    calls,              \* history: the offsets get_all_spaces was called with
    fault,              \* history: how a paging call failed, "none" if none did
    space,              \* the space whose output file is being named
    output_file         \* the name of its output file, None before

vars == <<impl, max_workers, spaces_to_export, now, run, export_cache,
          cache_file, semaphore, idle_workers, task, completed,
          successful_exports, failed_spaces, observed, phase, exit_code,
          unclean, inventory, specific_spaces, include_personal,
          include_archived, all_spaces, start, calls, fault, space,
          output_file>>

\* what an Export Task and the aggregating loop never change
setup == <<inventory, specific_spaces, include_personal, include_archived,
           all_spaces, start, calls, fault, space, output_file>>

---------------------------------------------------------------------------
(* Bounds of the model *)

MaxItems == 2
MaxWorkers == 2
MaxTime == 2
MaxRuns == 2
ContentLength == 2
MaxSpaces == 101
MaxNameLen == 3
MaxListed == 3

(* Program constants *)

max_retries == 3
limit == 50

TickSeconds == 12 * 3600
SecondsPerDay == 3600 * 24

---------------------------------------------------------------------------
(* Values *)

None == <<>>

RECURSIVE Pow2(_)
Pow2(n) == IF n = 0 THEN 1 ELSE 2 * Pow2(n - 1)

\* retry_delay = 5 * (2 ** retry_count), evaluated after retry_count += 1
RetryDelay(retry_count) == 5 * Pow2(retry_count)

\* mutant of Bucket: the fingerprint follows the clock, not the day
Bucket_Clock(t) == t

\* int(time.time() / (3600 * 24))
Bucket(t) == (t * TickSeconds) \div SecondsPerDay

\* cache_key = f"{space_key}_{int(time.time() / (3600 * 24))}".  The bucket is
\* a run of digits after the last "_", so the string determines the pair.
CacheKey(space_key, t) == <<space_key, Bucket(t)>>

\* output_file = self.output_dir / f"{space_key}_{safe_name}.html.zip"
OutputFile(space_key) == <<space_key, "html.zip">>

\* the artifact path an earlier run used when the space had another name
RenamedFile(space_key) == <<space_key, "renamed.html.zip">>

EmptyMap == [k \in {} |-> None]

Put(m, k, v) == [x \in (DOMAIN m) \cup {k} |-> IF x = k THEN v ELSE m[x]]

---------------------------------------------------------------------------
(* The Cache Store: the in-memory object and the file *)

\* What json.load can return: a JSON object ("dict"), or a valid JSON text
\* that is no object: an array or string ("array": `in` works, item
\* assignment raises TypeError) or a number, null or boolean ("scalar":
\* `in` raises TypeError).
Dict(m) == [shape |-> "dict", map |-> m]
Missing == [shape |-> "missing", map |-> EmptyMap, len |-> 0]
\* text that is not valid JSON, of the length of a dump of len entries
Garbage(len) == [shape |-> "garbage", map |-> EmptyMap, len |-> len]
Scalar == [shape |-> "scalar", map |-> EmptyMap, len |-> 0]
Array == [shape |-> "array", map |-> EmptyMap, len |-> 0]
\* json.dump(self.export_cache, f): entries have one length, so the text's
\* length is measured in entries
Saved(m) == [shape |-> "dict", map |-> m, len |-> Cardinality(DOMAIN m)]

\* _load_cache: a missing file, or any exception while reading it, gives {};
\* otherwise whatever json.load returned
_load_cache(f) ==
    CASE f.shape = "missing" -> Dict(EmptyMap)
      [] f.shape = "garbage" -> Dict(EmptyMap)
      [] OTHER -> [shape |-> f.shape, map |-> f.map]

\* if cache_key in self.export_cache: raises TypeError on a scalar
CacheLookupRaises == export_cache.shape = "scalar"

\* mutant of CacheHit: the cache is never consulted
CacheHit_Never(ck) == FALSE

\* if cache_key in self.export_cache
CacheHit(ck) == export_cache.shape = "dict" /\ ck \in DOMAIN export_cache.map

\* self.export_cache[cache_key] = ...: raises TypeError unless a dict
CacheStoreRaises == export_cache.shape # "dict"

\* the files a run may find: none, an unparseable one, valid JSON that is no
\* object, or the file an earlier run of the same day left, written when
\* space 1 had another name
InitialFiles ==
    {Missing, Garbage(1), Scalar, Array,
     Saved(Put(EmptyMap, CacheKey(1, 0), RenamedFile(1)))}

\* the outcomes of writing the cache file in _save_cache
SaveOutcomes == {"ok", "open_fails", "write_fails"}

\* mutant of SaveRaises: a failed write reaches export_space
SaveRaises_Uncaught(saved) == saved # "ok"

\* _save_cache: except Exception logs a warning, so nothing is raised to
\* the caller whatever the write did
SaveRaises(saved) == FALSE

---------------------------------------------------------------------------
(* Export Tasks *)

Tasks == 1..Len(spaces_to_export)

NoResult == [kind |-> "none", success |-> FALSE, space_key |-> 0, file_path |-> None]
\* return success, space_key, file_path
Return(s, k, p) == [kind |-> "return", success |-> s, space_key |-> k, file_path |-> p]
\* an exception leaves export_space
Raise == [kind |-> "raise", success |-> FALSE, space_key |-> 0, file_path |-> None]

NewTask ==
    [pc |-> "pending", cache_key |-> None, retry_count |-> 0,
     export_url |-> None, buffer |-> EmptyMap, result |-> NoResult,
     \* history of the task: export requests, GETs, seconds slept,
     \* artifact file opened for writing, cache inserts, cache file writes
     \* that ended without error, what the last download attempt met, and
     \* the Cache Store as it was when the task started
     requests |-> 0, gets |-> 0, waited |-> 0, wrote |-> FALSE,
     commits |-> 0, saves |-> 0, last |-> "none",
     start |-> [cache |-> Dict(EmptyMap), file |-> Missing]]

\* the responses of the GET: status, content-length (0 when absent) and the
\* number of body bytes delivered before the stream ended
Responses ==
    [status : {200, 500}, total_size : {0, ContentLength},
     downloaded : 1..ContentLength]

\* if response.status != 200
StatusFailed(resp) == resp.status # 200

\* if total_size > 0 and downloaded < total_size
Incomplete(resp) == resp.total_size > 0 /\ resp.downloaded < resp.total_size

\* a clean download: status 200 and every declared byte received
CleanDownload(resp) ==
    resp.status = 200 /\ (resp.total_size > 0 => resp.downloaded >= resp.total_size)

\* what get_space_export gives: a URL, nothing (None or an empty string), or
\* an exception
ExportResults == {"url", "none", "raises"}

\* mutant of NoExportUrl: a missing URL goes unnoticed
NoExportUrl_Unchecked(export_url) == FALSE

\* if not export_url
NoExportUrl(export_url) == export_url = "none"

Done(tk, res) == [tk EXCEPT !.pc = "done", !.result = res]

\* what a download attempt met, as the claims name it
LastKind(resp) ==
    IF resp.status # 200 THEN "non200"
    ELSE IF resp.total_size > 0 /\ resp.downloaded < resp.total_size THEN "short"
    ELSE "clean"

---------------------------------------------------------------------------
(* The cooperative realization: ConfluenceAsyncExporter.export_space *)

\* mutant of CanAcquire: the semaphore is never waited for
CanAcquire_NoWait == TRUE

\* async with self.semaphore: a permit must be free
CanAcquire == semaphore > 0

\* mutant of RetriesLeft: one attempt too many
RetriesLeft_OneMore(retry_count) == retry_count <= max_retries

\* while retry_count < max_retries / if retry_count < max_retries
RetriesLeft(retry_count) == retry_count < max_retries

\* mutant of AsyncStep: the permit of a finished task is not given back
AsyncStep_NoRelease(t, tk, finished, permits) ==
    /\ task' = [task EXCEPT ![t] = tk]
    /\ completed' = IF finished THEN Append(completed, t) ELSE completed
    /\ semaphore' = permits

\* One step of a coroutine between two suspension points.  `finished` says
\* that export_space returned or raised: the future completes and the
\* permit goes back.
AsyncStep(t, tk, finished, permits) ==
    /\ task' = [task EXCEPT ![t] = tk]
    /\ completed' = IF finished THEN Append(completed, t) ELSE completed
    /\ semaphore' = IF finished THEN permits + 1 ELSE permits

\* retry_count += 1; then sleep retry_delay and loop, or return False
AsyncAttemptFailed(t, tk) ==
    LET retry_count == tk.retry_count + 1
        tr == [tk EXCEPT !.retry_count = retry_count]
    IN  /\ IF RetriesLeft(retry_count)
           THEN AsyncStep(t, [tr EXCEPT !.pc = "sleep",
                                        !.waited = @ + RetryDelay(retry_count)],
                          FALSE, semaphore)
           ELSE AsyncStep(t, Done(tr, Return(FALSE, spaces_to_export[t], None)),
                          TRUE, semaphore)
        /\ UNCHANGED <<export_cache, cache_file, unclean>>

\* From the semaphore to the first GET, with no suspension point between:
\* the cache check, then the (synchronous) export request.
AsyncStart(t) ==
    /\ impl = "async" /\ phase = "running"
    /\ task[t].pc = "pending"
    /\ CanAcquire
    /\ LET space_key == spaces_to_export[t]
           cache_key == CacheKey(space_key, now)
           tk == [task[t] EXCEPT !.cache_key = cache_key,
                                 !.start = [cache |-> export_cache,
                                            file |-> cache_file]]
           permits == semaphore - 1
       IN  IF CacheLookupRaises
           THEN AsyncStep(t, Done(tk, Raise), TRUE, permits)
           ELSE IF CacheHit(cache_key)
           THEN AsyncStep(t, Done(tk, Return(TRUE, space_key,
                                             export_cache.map[cache_key])),
                          TRUE, permits)
           ELSE \E export_url \in ExportResults :
                  LET tr == [tk EXCEPT !.requests = @ + 1,
                                       !.export_url = export_url] IN
                  IF export_url = "raises" \/ NoExportUrl(export_url)
                  THEN AsyncStep(t, Done(tr, Return(FALSE, space_key, None)),
                                 TRUE, permits)
                  ELSE AsyncStep(t, [tr EXCEPT !.pc = "get"], FALSE, permits)
    /\ UNCHANGED <<setup, exit_code, impl, max_workers, spaces_to_export, now, run, export_cache,
                   cache_file, idle_workers, successful_exports, failed_spaces,
                   observed, phase, unclean>>

\* One download attempt that got a response: the status check, the body
\* streamed to output_file, the completeness check, then the commit and
\* _save_cache with no suspension point between.
AsyncResponse(t) ==
    /\ impl = "async" /\ phase = "running"
    /\ task[t].pc = "get"
    /\ \E resp \in Responses :
          LET space_key == spaces_to_export[t]
              tk == [task[t] EXCEPT !.gets = @ + 1, !.last = LastKind(resp)]
              tw == [tk EXCEPT !.wrote = TRUE]
          IN  IF StatusFailed(resp) THEN AsyncAttemptFailed(t, tk)
              ELSE IF Incomplete(resp) THEN AsyncAttemptFailed(t, tw)
              ELSE IF CacheStoreRaises
              THEN /\ AsyncStep(t, Done(tw, Return(FALSE, space_key, None)),
                                TRUE, semaphore)
                   /\ UNCHANGED <<export_cache, cache_file, unclean>>
              ELSE \E saved \in SaveOutcomes :
                   /\ export_cache' =
                        [export_cache EXCEPT
                           !.map = Put(@, tk.cache_key, OutputFile(space_key))]
                   /\ cache_file' =
                        CASE saved = "ok" -> Saved(export_cache'.map)
                          [] saved = "open_fails" -> cache_file
                          [] OTHER -> Garbage(0)
                   /\ unclean' = IF CleanDownload(resp) THEN unclean
                                 ELSE unclean \cup {tk.cache_key}
                   /\ AsyncStep(t,
                        Done([tw EXCEPT !.commits = @ + 1,
                                        !.saves = IF saved = "ok"
                                                  THEN @ + 1 ELSE @],
                             IF SaveRaises(saved)
                             THEN Return(FALSE, space_key, None)
                             ELSE Return(TRUE, space_key,
                                         OutputFile(space_key))),
                        TRUE, semaphore)
    /\ UNCHANGED <<setup, exit_code, impl, max_workers, spaces_to_export, now, run, idle_workers,
                   successful_exports, failed_spaces, observed, phase>>

\* except (aiohttp.ClientError, asyncio.TimeoutError): an attempt failure,
\* before or in the middle of the body
AsyncClientError(t) ==
    /\ impl = "async" /\ phase = "running"
    /\ task[t].pc = "get"
    /\ \E wrote \in BOOLEAN :
          AsyncAttemptFailed(t, [task[t] EXCEPT !.gets = @ + 1,
                                                !.wrote = wrote,
                                                !.last = "client_error"])
    /\ UNCHANGED <<setup, exit_code, impl, max_workers, spaces_to_export, now, run, idle_workers,
                   successful_exports, failed_spaces, observed, phase>>

\* except Exception: anything else raised inside the try (open(output_file)
\* failing, say) ends the task at once
AsyncOtherError(t) ==
    /\ impl = "async" /\ phase = "running"
    /\ task[t].pc = "get"
    /\ \E wrote \in BOOLEAN :
          AsyncStep(t, Done([task[t] EXCEPT !.gets = @ + 1,
                                            !.wrote = wrote,
                                            !.last = "other_error"],
                            Return(FALSE, spaces_to_export[t], None)),
                    TRUE, semaphore)
    /\ UNCHANGED <<setup, exit_code, impl, max_workers, spaces_to_export, now, run, export_cache,
                   cache_file, idle_workers, successful_exports, failed_spaces,
                   observed, phase, unclean>>

\* mutant of AsyncWake: the export is requested again before each retry
AsyncWake_Rerequest(t) ==
    /\ impl = "async" /\ phase = "running"
    /\ task[t].pc = "sleep"
    /\ task' = [task EXCEPT ![t] = [@ EXCEPT !.pc = "get", !.last = "none",
                                             !.requests = @ + 1]]
    /\ UNCHANGED <<setup, exit_code, impl, max_workers, spaces_to_export, now, run, export_cache,
                   cache_file, semaphore, idle_workers, completed,
                   successful_exports, failed_spaces, observed, phase, unclean>>

\* await asyncio.sleep(retry_delay) returns: the loop issues the next GET
AsyncWake(t) ==
    /\ impl = "async" /\ phase = "running"
    /\ task[t].pc = "sleep"
    /\ task' = [task EXCEPT ![t] = [@ EXCEPT !.pc = "get", !.last = "none"]]
    /\ UNCHANGED <<setup, exit_code, impl, max_workers, spaces_to_export, now, run, export_cache,
                   cache_file, semaphore, idle_workers, completed,
                   successful_exports, failed_spaces, observed, phase, unclean>>

---------------------------------------------------------------------------
(* The thread-pool realization: ConfluenceExporter.export_space, run by the
   threads of ThreadPoolExecutor(max_workers).  Threads interleave at every
   access to shared state. *)

\* the threads of the pool take work while export_all_spaces loops over the
\* futures, and while the executor's __exit__ waits in shutdown(wait=True)
PoolRuns == phase \in {"running", "shutdown"}

\* a thread of the pool is free to take the next work item
WorkerFree == idle_workers > 0

\* One step of a worker thread.  `finished` says that export_space returned
\* or raised: the future completes and the thread is free again.
ThreadStep(t, tk, finished, idle) ==
    /\ task' = [task EXCEPT ![t] = tk]
    /\ completed' = IF finished THEN Append(completed, t) ELSE completed
    /\ idle_workers' = IF finished THEN idle + 1 ELSE idle

\* A free thread takes the oldest queued work item and does the cache check
\* (which is outside the try).
ThreadStart(t) ==
    /\ impl = "thread" /\ PoolRuns
    /\ task[t].pc = "pending"
    /\ \A u \in Tasks : u < t => task[u].pc # "pending"
    /\ WorkerFree
    /\ LET space_key == spaces_to_export[t]
           cache_key == CacheKey(space_key, now)
           tk == [task[t] EXCEPT !.cache_key = cache_key,
                                 !.start = [cache |-> export_cache,
                                            file |-> cache_file]]
           idle == idle_workers - 1
       IN  IF CacheLookupRaises
           THEN ThreadStep(t, Done(tk, Raise), TRUE, idle)
           ELSE IF CacheHit(cache_key)
           THEN ThreadStep(t, Done(tk, Return(TRUE, space_key,
                                              export_cache.map[cache_key])),
                           TRUE, idle)
           ELSE ThreadStep(t, [tk EXCEPT !.pc = "request"], FALSE, idle)
    /\ UNCHANGED <<setup, exit_code, impl, max_workers, spaces_to_export, now, run, export_cache,
                   cache_file, semaphore, successful_exports, failed_spaces,
                   observed, phase, unclean>>

\* export_url = self.confluence.get_space_export(space_key, 'html')
ThreadRequest(t) ==
    /\ impl = "thread" /\ PoolRuns
    /\ task[t].pc = "request"
    /\ \E export_url \in ExportResults :
          LET tr == [task[t] EXCEPT !.requests = @ + 1,
                                    !.export_url = export_url] IN
          IF export_url = "raises" \/ NoExportUrl(export_url)
          THEN ThreadStep(t, Done(tr, Return(FALSE, spaces_to_export[t], None)),
                          TRUE, idle_workers)
          ELSE ThreadStep(t, [tr EXCEPT !.pc = "get"], FALSE, idle_workers)
    /\ UNCHANGED <<setup, exit_code, impl, max_workers, spaces_to_export, now, run, export_cache,
                   cache_file, semaphore, successful_exports, failed_spaces,
                   observed, phase, unclean>>

\* requests.get returned a response: the body is written to output_file
\* whatever the status, and the entry is inserted.  requests raises on a
\* body shorter than content-length only when urllib3 enforces the length
\* (its default from 2.0 on), so both outcomes exist.
ThreadResponse(t) ==
    /\ impl = "thread" /\ PoolRuns
    /\ task[t].pc = "get"
    /\ \E resp \in Responses, enforce_content_length \in BOOLEAN :
          LET space_key == spaces_to_export[t]
              tk == [task[t] EXCEPT !.gets = @ + 1, !.last = LastKind(resp)]
              tw == [tk EXCEPT !.wrote = TRUE]
          IN  IF enforce_content_length /\ LastKind(resp) = "short"
              THEN /\ ThreadStep(t, Done(tk, Return(FALSE, space_key, None)),
                                 TRUE, idle_workers)
                   /\ UNCHANGED <<export_cache, unclean>>
              ELSE IF CacheStoreRaises
              THEN /\ ThreadStep(t, Done(tw, Return(FALSE, space_key, None)),
                                 TRUE, idle_workers)
                   /\ UNCHANGED <<export_cache, unclean>>
              ELSE /\ export_cache' =
                        [export_cache EXCEPT
                           !.map = Put(@, tk.cache_key, OutputFile(space_key))]
                   /\ unclean' = IF CleanDownload(resp) THEN unclean
                                 ELSE unclean \cup {tk.cache_key}
                   /\ ThreadStep(t, [tw EXCEPT !.commits = @ + 1,
                                               !.pc = "save_open"],
                                 FALSE, idle_workers)
    /\ UNCHANGED <<setup, exit_code, impl, max_workers, spaces_to_export, now, run, cache_file,
                   semaphore, successful_exports, failed_spaces, observed,
                   phase>>

\* except Exception: requests.get or the file write raised
ThreadGetError(t) ==
    /\ impl = "thread" /\ PoolRuns
    /\ task[t].pc = "get"
    /\ \E e \in {"client_error", "other_error"} :
          ThreadStep(t, Done([task[t] EXCEPT !.gets = @ + 1,
                                             !.wrote = (e = "other_error"),
                                             !.last = e],
                             Return(FALSE, spaces_to_export[t], None)),
                     TRUE, idle_workers)
    /\ UNCHANGED <<setup, exit_code, impl, max_workers, spaces_to_export, now, run, export_cache,
                   cache_file, semaphore, successful_exports, failed_spaces,
                   observed, phase, unclean>>

\* buffered text of length buf.len written at offset 0 of a file holding
\* cur: a longer cur keeps its tail, and the result is no JSON text
Overlay(buf, cur) == IF cur.len > buf.len THEN Garbage(cur.len) ELSE buf

\* _save_cache, open(self.cache_file, 'w'): truncates the file, or fails
\* (the exception is logged and export_space goes on to return success)
ThreadSaveOpen(t) ==
    /\ impl = "thread" /\ PoolRuns
    /\ task[t].pc = "save_open"
    /\ \E opened \in BOOLEAN :
          IF opened
          THEN /\ cache_file' = Garbage(0)
               /\ ThreadStep(t, [task[t] EXCEPT !.pc = "save_dump"],
                             FALSE, idle_workers)
          ELSE /\ cache_file' = cache_file
               /\ ThreadStep(t, Done(task[t],
                                     IF SaveRaises("open_fails")
                                     THEN Return(FALSE, spaces_to_export[t],
                                                 None)
                                     ELSE Return(TRUE, spaces_to_export[t],
                                                 OutputFile(spaces_to_export[t]))),
                             TRUE, idle_workers)
    /\ UNCHANGED <<setup, exit_code, impl, max_workers, spaces_to_export, now, run, export_cache,
                   semaphore, successful_exports, failed_spaces, observed,
                   phase, unclean>>

\* _save_cache, json.dump: the dict as it is now goes to the file object's
\* buffer (the text is shorter than the buffer)
ThreadSaveDump(t) ==
    /\ impl = "thread" /\ PoolRuns
    /\ task[t].pc = "save_dump"
    /\ task' = [task EXCEPT ![t] = [@ EXCEPT !.buffer = export_cache.map,
                                             !.pc = "save_close"]]
    /\ UNCHANGED <<setup, exit_code, impl, max_workers, spaces_to_export, now, run, export_cache,
                   cache_file, semaphore, idle_workers, completed,
                   successful_exports, failed_spaces, observed, phase, unclean>>

\* _save_cache, leaving the with block: the buffer is flushed at this file
\* object's own offset 0, or the write fails and the file keeps what it
\* holds; then export_space returns success
ThreadSaveClose(t) ==
    /\ impl = "thread" /\ PoolRuns
    /\ task[t].pc = "save_close"
    /\ \E saved \in {"ok", "write_fails"} :
          /\ cache_file' = IF saved = "ok"
                           THEN Overlay(Saved(task[t].buffer), cache_file)
                           ELSE cache_file
          /\ ThreadStep(t, Done([task[t] EXCEPT
                                    !.saves = IF saved = "ok" THEN @ + 1 ELSE @,
                                    !.buffer = EmptyMap],
                                IF SaveRaises(saved)
                                THEN Return(FALSE, spaces_to_export[t], None)
                                ELSE Return(TRUE, spaces_to_export[t],
                                            OutputFile(spaces_to_export[t]))),
                        TRUE, idle_workers)
    /\ UNCHANGED <<setup, exit_code, impl, max_workers, spaces_to_export, now, run, export_cache,
                   semaphore, successful_exports, failed_spaces, observed,
                   phase, unclean>>

---------------------------------------------------------------------------
(* export_all_spaces: the loop over as_completed, and the return *)

\* except Exception around the future's result: the thread realization
\* records space['key'], the cooperative one only logs
FailedAfterRaise(t) ==
    IF impl = "thread" THEN Append(failed_spaces, spaces_to_export[t])
    ELSE failed_spaces

\* One iteration of the loop, on the oldest completed future.
Observe ==
    /\ phase = "running"
    /\ completed # <<>>
    /\ LET t == Head(completed)
           r == task[t].result
       IN  /\ completed' = Tail(completed)
           /\ observed' = observed + 1
           /\ IF r.kind = "raise"
              THEN /\ failed_spaces' = FailedAfterRaise(t)
                   /\ UNCHANGED successful_exports
              ELSE IF r.success
              THEN /\ successful_exports' = successful_exports + 1
                   /\ UNCHANGED failed_spaces
              ELSE /\ failed_spaces' = Append(failed_spaces, r.space_key)
                   /\ UNCHANGED successful_exports
    /\ UNCHANGED <<setup, exit_code, impl, max_workers, spaces_to_export, now, run, export_cache,
                   cache_file, semaphore, idle_workers, task, phase, unclean>>

\* mutant of LoopDone: the loop waits for one future more than there are
LoopDone_OneMore == observed > Len(spaces_to_export)

\* as_completed has yielded every future: the loop ends
LoopDone == observed = Len(spaces_to_export)

\* return successful_exports, failed_spaces
ReturnSummary ==
    /\ phase = "running"
    /\ LoopDone
    /\ phase' = "returned"
    /\ UNCHANGED <<setup, exit_code, impl, max_workers, spaces_to_export, now, run, export_cache,
                   cache_file, semaphore, idle_workers, task, completed,
                   successful_exports, failed_spaces, observed, unclean>>

---------------------------------------------------------------------------
(* Work Discovery: the inventory, the paging calls and the filters *)

\* a space as get_all_spaces returns it; status "" when the key is absent
Space(key, type, status) == [key |-> key, type |-> type, status |-> status]

\* the kinds of spaces an inventory is made of, in a cycle: the first three
\* are a shared active space, a personal one and an archived one
KindCycle ==
    << [type |-> "global", status |-> "current"],
       [type |-> "personal", status |-> "current"],
       [type |-> "global", status |-> "archived"],
       [type |-> "PERSONAL", status |-> "current"],
       [type |-> "global", status |-> ""],
       [type |-> "personal", status |-> "ARCHIVED"] >>

\* an inventory of n spaces with keys 1..n, the cycle of kinds entered at
\* offset
Inventory(n, offset) ==
    [i \in 1..n |->
        LET kind == KindCycle[((i - 1 + offset) % Len(KindCycle)) + 1]
        IN  Space(i, kind.type, kind.status)]

\* str.lower() on the values a type or status takes
Lower(str) ==
    CASE str = "PERSONAL" -> "personal"
      [] str = "ARCHIVED" -> "archived"
      [] OTHER -> str

\* is_personal = space['type'].lower() == 'personal'
is_personal(s) == Lower(s.type) = "personal"

\* is_archived = space.get('status', '').lower() == 'archived'
is_archived(s) == Lower(s.status) = "archived"

\* the page get_all_spaces(start=offset, limit=limit) returns
Page(offset) ==
    SubSeq(inventory, offset + 1,
           IF offset + limit < Len(inventory) THEN offset + limit
           ELSE Len(inventory))

\* mutant of LastPage: a short page does not end the loop
LastPage_Never(spaces) == FALSE

\* if len(spaces) < limit: break
LastPage(spaces) == Len(spaces) < limit

\* what a paging call does: it returns its page, returns nothing usable
\* (None, or a body without 'results'), or raises
PageOutcomes == {"page", "unusable", "raises"}

\* if specific_spaces: None and the empty list both select the filters
AllowListGiven == specific_spaces # None

\* mutant of InSpecificKeys: only the first key of the list is honoured
InSpecificKeys_First(s) == specific_spaces[1] = s.key

\* specific_keys = set(specific_spaces); s['key'] in specific_keys
InSpecificKeys(s) ==
    \E i \in 1..Len(specific_spaces) : specific_spaces[i] = s.key

\* mutant of Excluded: nothing is filtered out
Excluded_Nothing(s) == FALSE

\* the two `continue` of the filter loop
Excluded(s) ==
    \/ is_personal(s) /\ ~include_personal
    \/ is_archived(s) /\ ~include_archived

Kept(s) == ~Excluded(s)

\* the filtered work set, as space dicts in discovery order
Filtered(spaces) ==
    IF AllowListGiven THEN SelectSeq(spaces, InSpecificKeys)
    ELSE SelectSeq(spaces, Kept)

\* the keys of a list of spaces
Keys(spaces) == [i \in 1..Len(spaces) |-> spaces[i].key]

---------------------------------------------------------------------------
(* The process and its environment *)

\* the state a new process is in when export_all_spaces starts its tasks
StartRun(file) ==
    /\ export_cache' = _load_cache(file)
    /\ semaphore' = max_workers
    /\ idle_workers' = max_workers
    /\ task' = [t \in Tasks |-> NewTask]
    /\ completed' = <<>>
    /\ successful_exports' = 0
    /\ failed_spaces' = <<>>
    /\ observed' = 0
    /\ phase' = "running"

\* mutant of Exit: a run that exported nothing ends with status 1
Exit_NothingExported ==
    /\ phase = "returned"
    /\ phase' = "exited"
    /\ exit_code' = IF failed_spaces = <<>> /\ successful_exports > 0
                    THEN 0 ELSE 1
    /\ UNCHANGED <<setup, impl, max_workers, spaces_to_export, now, run, export_cache,
                   cache_file, semaphore, idle_workers, task, completed,
                   successful_exports, failed_spaces, observed, unclean>>

\* main: return 0 if not failed else 1
Exit ==
    /\ phase = "returned"
    /\ phase' = "exited"
    /\ exit_code' = IF failed_spaces = <<>> THEN 0 ELSE 1
    /\ UNCHANGED <<setup, impl, max_workers, spaces_to_export, now, run, export_cache,
                   cache_file, semaphore, idle_workers, task, completed,
                   successful_exports, failed_spaces, observed, unclean>>

\* KeyboardInterrupt in the main thread of the thread-pool realization: it
\* leaves the loop over as_completed, and the with block of the executor
\* calls shutdown(wait=True), which cancels nothing
ThreadInterrupt ==
    /\ impl = "thread" /\ phase = "running"
    /\ phase' = "shutdown"
    /\ UNCHANGED <<setup, exit_code, impl, max_workers, spaces_to_export, now, run,
                   export_cache, cache_file, semaphore, idle_workers, task,
                   completed, successful_exports, failed_spaces, observed,
                   unclean>>

\* shutdown(wait=True) returns once the queue is empty and every thread has
\* ended; the KeyboardInterrupt then reaches __main__: sys.exit(130)
ThreadShutdownDone ==
    /\ impl = "thread" /\ phase = "shutdown"
    /\ \A t \in Tasks : task[t].pc = "done"
    /\ phase' = "exited"
    /\ exit_code' = 130
    /\ UNCHANGED <<setup, impl, max_workers, spaces_to_export, now, run, export_cache,
                   cache_file, semaphore, idle_workers, task, completed,
                   successful_exports, failed_spaces, observed, unclean>>

\* SIGINT under asyncio.run: the main task is cancelled, the CancelledError
\* is no Exception and leaves export_all_spaces, every task still alive is
\* cancelled where it waits (for the semaphore, a response or a sleep), and
\* main returns 130
AsyncInterrupt ==
    /\ impl = "async" /\ phase = "running"
    /\ task' = [t \in Tasks |->
                  IF task[t].pc = "done" THEN task[t]
                  ELSE [task[t] EXCEPT !.pc = "cancelled"]]
    /\ semaphore' = max_workers
    /\ phase' = "exited"
    /\ exit_code' = 130
    /\ UNCHANGED <<setup, impl, max_workers, spaces_to_export, now, run, export_cache,
                   cache_file, idle_workers, completed, successful_exports,
                   failed_spaces, observed, unclean>>

\* the program is run again on the same output directory
NewRun ==
    /\ phase = "exited"
    /\ run < MaxRuns
    /\ run' = run + 1
    /\ exit_code' = None
    /\ StartRun(cache_file)
    /\ UNCHANGED <<setup, impl, max_workers, spaces_to_export, now, cache_file, unclean>>

\* a task is still to start in this run, or a run is still to start: the
\* clock is read only where an Export Task starts
ClockWillBeRead ==
    \/ \E t \in Tasks : task[t].pc = "pending"
    \/ run < MaxRuns

\* time passes
Tick ==
    /\ now < MaxTime
    /\ ClockWillBeRead
    /\ now' = now + 1
    /\ UNCHANGED <<setup, exit_code, impl, max_workers, spaces_to_export, run, export_cache,
                   cache_file, semaphore, idle_workers, task, completed,
                   successful_exports, failed_spaces, observed, phase, unclean>>

Init ==
    /\ impl \in {"async", "thread"}
    /\ max_workers \in 1..MaxWorkers
    /\ spaces_to_export \in {[i \in 1..n |-> i] : n \in 1..MaxItems}
    /\ now = 0
    /\ run = 1
    /\ cache_file \in InitialFiles
    /\ export_cache = _load_cache(cache_file)
    /\ semaphore = max_workers
    /\ idle_workers = max_workers
    /\ task = [t \in Tasks |-> NewTask]
    /\ completed = <<>>
    /\ successful_exports = 0
    /\ failed_spaces = <<>>
    /\ observed = 0
    /\ phase = "running"
    /\ exit_code = None
    /\ unclean = {}
    \* discovery has found the work set: shared, active spaces, all kept
    /\ inventory = [i \in 1..Len(spaces_to_export) |->
                       Space(spaces_to_export[i], "global", "current")]
    /\ specific_spaces = None
    /\ include_personal = FALSE
    /\ include_archived = FALSE
    /\ all_spaces = inventory
    /\ start = 0
    /\ calls = <<0>>
    /\ fault = "none"
    /\ space = None
    /\ output_file = None

Next ==
    \/ \E t \in Tasks : AsyncStart(t)
    \/ \E t \in Tasks : AsyncResponse(t)
    \/ \E t \in Tasks : AsyncClientError(t)
    \/ \E t \in Tasks : AsyncOtherError(t)
    \/ \E t \in Tasks : AsyncWake(t)
    \/ \E t \in Tasks : ThreadStart(t)
    \/ \E t \in Tasks : ThreadRequest(t)
    \/ \E t \in Tasks : ThreadResponse(t)
    \/ \E t \in Tasks : ThreadGetError(t)
    \/ \E t \in Tasks : ThreadSaveOpen(t)
    \/ \E t \in Tasks : ThreadSaveDump(t)
    \/ \E t \in Tasks : ThreadSaveClose(t)
    \/ Observe
    \/ ReturnSummary
    \/ Exit
    \/ NewRun
    \/ Tick

Spec == Init /\ [][Next]_vars

\* the steps of the tasks and of the aggregating loop
Engine ==
    \/ \E t \in Tasks : AsyncStart(t)
    \/ \E t \in Tasks : AsyncResponse(t)
    \/ \E t \in Tasks : AsyncClientError(t)
    \/ \E t \in Tasks : AsyncOtherError(t)
    \/ \E t \in Tasks : AsyncWake(t)
    \/ \E t \in Tasks : ThreadStart(t)
    \/ \E t \in Tasks : ThreadRequest(t)
    \/ \E t \in Tasks : ThreadResponse(t)
    \/ \E t \in Tasks : ThreadGetError(t)
    \/ \E t \in Tasks : ThreadSaveOpen(t)
    \/ \E t \in Tasks : ThreadSaveDump(t)
    \/ \E t \in Tasks : ThreadSaveClose(t)
    \/ Observe
    \/ ReturnSummary
    \/ Exit

\* one run of the program
RunOnce == Engine \/ Tick

\* One run under fair scheduling: while a coroutine or thread is ready, a
\* remote call is due to return or fail, or the loop has a future to take,
\* one of them goes on.  Time passing is not forced.
FairSpec == Init /\ [][RunOnce]_vars /\ WF_vars(Engine)

---------------------------------------------------------------------------
(* export_all_spaces from its first line to the creation of the tasks *)

\* One iteration of the paging loop.  An exception of get_all_spaces leaves
\* export_all_spaces and main, which logs it and ends with status 1.
GetAllSpaces ==
    /\ phase = "discovery"
    /\ calls' = Append(calls, start)
    /\ \E outcome \in PageOutcomes :
          LET spaces == Page(start) IN
          CASE outcome = "raises" ->
                 /\ fault' = "raises"
                 /\ phase' = "exited"
                 /\ exit_code' = 1
                 /\ UNCHANGED <<all_spaces, start>>
            [] outcome = "unusable" ->
                 \* if not response or 'results' not in response: break
                 /\ fault' = "unusable"
                 /\ phase' = "filter"
                 /\ UNCHANGED <<all_spaces, start, exit_code>>
            [] OTHER ->
                 /\ IF spaces = <<>>
                    THEN /\ phase' = "filter"
                         /\ UNCHANGED <<all_spaces, start>>
                    ELSE /\ all_spaces' = all_spaces \o spaces
                         /\ IF LastPage(spaces)
                            THEN phase' = "filter" /\ start' = start
                            ELSE phase' = "discovery" /\ start' = start + limit
                 /\ UNCHANGED <<fault, exit_code>>
    /\ UNCHANGED <<impl, max_workers, spaces_to_export, now, run, export_cache,
                   cache_file, semaphore, idle_workers, task, completed,
                   successful_exports, failed_spaces, observed, unclean,
                   inventory, specific_spaces, include_personal,
                   include_archived, space, output_file>>

\* The filters, then `return 0, []` for an empty work set or the creation of
\* one Export Task per item.
FilterSpaces ==
    /\ phase = "filter"
    /\ spaces_to_export' = Keys(Filtered(all_spaces))
    /\ task' = [t \in 1..Len(spaces_to_export') |-> NewTask]
    /\ phase' = IF spaces_to_export' = <<>> THEN "returned" ELSE "running"
    /\ UNCHANGED <<setup, exit_code, impl, max_workers, now, run, export_cache,
                   cache_file, semaphore, idle_workers, completed,
                   successful_exports, failed_spaces, observed, unclean>>

\* the allow-lists of --spaces (nargs='+': one key or more), of spaces that
\* exist or not
AllowKeys == {0, 2, 3}

AllowLists ==
    {<<k>> : k \in AllowKeys} \cup {<<j, k>> : j, k \in AllowKeys}

\* A process that has built its exporter and enters export_all_spaces.  With
\* --spaces, main passes the allow-list and leaves both flags at False.
DiscoveryInit ==
    /\ impl \in {"async", "thread"}
    /\ max_workers = 1
    /\ spaces_to_export = <<>>
    /\ now = 0
    /\ run = 1
    /\ cache_file = Missing
    /\ export_cache = _load_cache(cache_file)
    /\ semaphore = max_workers
    /\ idle_workers = max_workers
    /\ task = <<>>
    /\ completed = <<>>
    /\ successful_exports = 0
    /\ failed_spaces = <<>>
    /\ observed = 0
    /\ phase = "discovery"
    /\ exit_code = None
    /\ unclean = {}
    /\ \E n \in 0..MaxSpaces, offset \in 0..(Len(KindCycle) - 1) :
          inventory = Inventory(n, offset)
    /\ \/ /\ specific_spaces = None
          /\ include_personal \in BOOLEAN
          /\ include_archived \in BOOLEAN
       \/ /\ specific_spaces \in AllowLists
          /\ include_personal = FALSE
          /\ include_archived = FALSE
    /\ all_spaces = <<>>
    /\ start = 0
    /\ calls = <<>>
    /\ fault = "none"
    /\ space = None
    /\ output_file = None

DiscoveryNext ==
    \/ GetAllSpaces
    \/ FilterSpaces
    \/ Exit

DiscoverySpec == DiscoveryInit /\ [][DiscoveryNext]_vars

\* Discovery with a remote that answers: a paging call that was issued
\* returns or raises, and the code that follows it runs.
DiscoveryFairSpec ==
    DiscoveryInit /\ [][DiscoveryNext]_vars /\ WF_vars(DiscoveryNext)

\* A process started with --spaces on an instance of a few spaces, from its
\* first paging call to its exit status.
AllowListInit ==
    /\ DiscoveryInit
    /\ Len(inventory) <= MaxListed
    /\ specific_spaces # None

AllowListNext ==
    \/ GetAllSpaces
    \/ FilterSpaces
    \/ Engine

AllowListSpec == AllowListInit /\ [][AllowListNext]_vars

---------------------------------------------------------------------------
(* The name of the output file *)

\* Characters are one-character strings; "e_acute" and "cjk" stand for the
\* letters U+00E9 and U+4E2D, "quote" for the double quote.
AsciiLetters == {"a", "M", "y", "S", "p", "c", "e", "h", "t", "m", "l", "z", "i"}
AsciiDigits == {"7", "2", "0", "4"}
OtherLetters == {"e_acute", "cjk"}
KeptPunctuation == {".", "_", "-", " "}

\* str.isalnum(): true of every Unicode letter and digit
isalnum(c) == c \in AsciiLetters \cup AsciiDigits \cup OtherLetters

\* mutant of SafeChar: the character is kept whatever it is
SafeChar_Kept(c) == c

\* c if c.isalnum() or c in "._- " else "_"
SafeChar(c) == IF isalnum(c) \/ c \in KeptPunctuation THEN c ELSE "_"

\* safe_name = "".join([... for c in space_name])
safe_name(space_name) == [i \in 1..Len(space_name) |-> SafeChar(space_name[i])]

\* f"{space_key}_{safe_name}.html.zip"
FileName(space_key, space_name) ==
    space_key \o <<"_">> \o safe_name(space_name)
              \o <<".", "h", "t", "m", "l", ".", "z", "i", "p">>

\* the characters names are made of
NameChars == {"a", "7", ".", "_", "-", " ", "/", "e_acute", "cjk"}

RECURSIVE NamesOfLen(_)
NamesOfLen(n) ==
    IF n = 0 THEN {<<>>}
    ELSE {Append(name, c) : name \in NamesOfLen(n - 1), c \in NameChars}

\* the name My/Space: "2024"
ExampleName ==
    <<"M", "y", "/", "S", "p", "a", "c", "e", ":", " ",
      "quote", "2", "0", "2", "4", "quote">>

Names == UNION {NamesOfLen(n) : n \in 0..MaxNameLen} \cup {ExampleName}

\* a key of a shared space and one of a personal space (~user)
SpaceKeys == {<<"S">>, <<"~", "a">>}

\* export_space is about to name the output file of a space
NamingInit ==
    /\ impl \in {"async", "thread"}
    /\ max_workers = 1
    /\ spaces_to_export = <<1>>
    /\ now = 0
    /\ run = 1
    /\ cache_file = Missing
    /\ export_cache = _load_cache(cache_file)
    /\ semaphore = max_workers
    /\ idle_workers = max_workers
    /\ task = <<NewTask>>
    /\ completed = <<>>
    /\ successful_exports = 0
    /\ failed_spaces = <<>>
    /\ observed = 0
    /\ phase = "naming"
    /\ exit_code = None
    /\ unclean = {}
    /\ inventory = <<>>
    /\ specific_spaces = None
    /\ include_personal = FALSE
    /\ include_archived = FALSE
    /\ all_spaces = <<>>
    /\ start = 0
    /\ calls = <<>>
    /\ fault = "none"
    /\ space \in [key : SpaceKeys, name : Names]
    /\ output_file = None

\* safe_name and output_file are computed
NameOutputFile ==
    /\ phase = "naming"
    /\ output_file = None
    /\ output_file' = [safe_name |-> safe_name(space.name),
                       path |-> FileName(space.key, space.name)]
    /\ UNCHANGED <<impl, max_workers, spaces_to_export, now, run, export_cache,
                   cache_file, semaphore, idle_workers, task, completed,
                   successful_exports, failed_spaces, observed, phase,
                   exit_code, unclean, inventory, specific_spaces,
                   include_personal, include_archived, all_spaces, start,
                   calls, fault, space>>

NamingSpec == NamingInit /\ [][NameOutputFile]_vars

\* a process-level interrupt and what follows it
Sigint ==
    \/ ThreadInterrupt
    \/ ThreadShutdownDone
    \/ AsyncInterrupt

RunOrSigint == RunOnce \/ Sigint

\* one run that an operator may interrupt
SigintSpec == Init /\ [][RunOrSigint]_vars

---------------------------------------------------------------------------
(* Claims *)

\* the tasks past the cache check: in the export request, a download
\* attempt, a backoff wait or the commit
ActiveTasks ==
    {t \in Tasks : task[t].pc \in {"request", "get", "sleep", "save_open",
                                   "save_dump", "save_close"}}

Exhausted(t) == task[t].pc = "done" /\ task[t].retry_count = max_retries

\* C1: in every reachable state of a run, in both realizations, the number
\* of Export Tasks that are simultaneously active never exceeds the
\* concurrency bound N.
C1_BoundedConcurrency == Cardinality(ActiveTasks) <= max_workers

\* N tasks are active and another one of a work set of at least N items
\* waits for a slot
C1_Witness ==
    /\ Len(spaces_to_export) >= max_workers
    /\ Cardinality(ActiveTasks) = max_workers
    /\ \E t \in Tasks : task[t].pc = "pending"

\* C2: when export_all_spaces returns, the aggregator has observed exactly
\* M outcomes and successful_exports + len(failed_spaces) = M, whatever way
\* each task ended.
C2_Completeness ==
    phase = "returned" =>
        /\ observed = Len(spaces_to_export)
        /\ successful_exports + Len(failed_spaces) = Len(spaces_to_export)

\* C4: an exception that leaves an Export Task is recorded as a failure of
\* that item's key in the summary, and the summary still covers the other
\* items.
C4_RaiseRecorded ==
    phase = "returned" =>
        \A t \in Tasks :
            task[t].result.kind = "raise" =>
                \E i \in 1..Len(failed_spaces) :
                    failed_spaces[i] = spaces_to_export[t]

\* C7: no entry of the Cache Store was committed after a non-200 response, a
\* short transfer or a failed request.
C7_EntriesClean ==
    \A ck \in DOMAIN export_cache.map : ck \notin unclean

\* no commit is between its insert and the end of its _save_cache
NoSaveInProgress ==
    \A t \in Tasks : task[t].pc \notin {"save_open", "save_dump", "save_close"}

\* C8: once the commits under way have ended, and none met a persist
\* failure, the in-memory map and the cache file both hold the entry of
\* every task that committed.
C8_NoLostCommit ==
    (/\ NoSaveInProgress
     /\ \A t \in Tasks : task[t].commits = 1 => task[t].saves = 1)
    => \A t \in Tasks :
          task[t].commits = 1 =>
             /\ task[t].cache_key \in DOMAIN export_cache.map
             /\ cache_file.shape = "dict"
             /\ task[t].cache_key \in DOMAIN cache_file.map

\* C9: a 200 response that declares a content-length and delivers fewer
\* bytes is an attempt failure: the task commits nothing, does not succeed,
\* and waits for a retry when attempts remain.
C9_ShortIsFailure ==
    \A t \in Tasks :
        task[t].last = "short" =>
            /\ task[t].commits = 0
            /\ IF task[t].retry_count < max_retries
               THEN task[t].pc = "sleep"
               ELSE /\ task[t].pc = "done"
                    /\ task[t].result = Return(FALSE, spaces_to_export[t], None)

C5_SuccessStored ==
    \A t \in Tasks :
        (task[t].pc = "done" /\ task[t].result.kind = "return"
            /\ task[t].result.success)
        => /\ export_cache.shape = "dict"
           /\ task[t].cache_key \in DOMAIN export_cache.map
           /\ export_cache.map[task[t].cache_key] = task[t].result.file_path

\* a task that starts while the store holds its fingerprint ends at once in
\* success with the stored path: no export request, no GET, no file
\* written, the store and its file untouched
C5_HitStep ==
    \A t \in Tasks :
        LET ck == CacheKey(spaces_to_export[t], now) IN
        (/\ task[t].pc = "pending" /\ task'[t].pc # "pending"
         /\ export_cache.shape = "dict" /\ ck \in DOMAIN export_cache.map)
        => /\ task'[t].pc = "done"
           /\ task'[t].result =
                 Return(TRUE, spaces_to_export[t], export_cache.map[ck])
           /\ task'[t].requests = 0 /\ task'[t].gets = 0 /\ ~task'[t].wrote
           /\ task'[t].commits = 0
           /\ export_cache' = export_cache /\ cache_file' = cache_file

\* C5: an item processed successfully in a time bucket leaves its entry in
\* the Cache Store, and a later invocation in the same bucket that finds the
\* store unchanged ends in CACHE_HIT with the same path, zero network calls
\* and no file write.
C5_CacheIdempotent == [](C5_SuccessStored) /\ [][C5_HitStep]_vars

\* in a second run, an item is answered from the entry the first run
\* committed
C5_Witness ==
    /\ run = 2
    /\ \E t \in Tasks :
          /\ task[t].pc = "done"
          /\ task[t].result =
                Return(TRUE, spaces_to_export[t], OutputFile(spaces_to_export[t]))
          /\ task[t].requests = 0 /\ task[t].gets = 0

\* the seconds slept before attempt retry_count + 1: 10, then 10 + 20
TotalWait(retry_count) ==
    CASE retry_count = 0 -> 0
      [] retry_count = 1 -> 10
      [] OTHER -> 30

\* C6: after the k-th failed attempt with attempts remaining the task waits
\* 5 * 2^k; a download that fails on attempts 1 and 2 and succeeds on
\* attempt 3 ends in SUCCESS with 3 attempts and 30 waited.
C6_RetryBackoff ==
    \A t \in Tasks :
        /\ task[t].pc \in {"get", "sleep"} =>
              /\ task[t].waited = TotalWait(task[t].retry_count)
              /\ task[t].retry_count < max_retries
        /\ task[t].pc = "sleep" => task[t].gets = task[t].retry_count
        /\ (task[t].pc = "done" /\ task[t].gets = max_retries
                /\ task[t].last = "clean")
           => /\ task[t].result.kind = "return" /\ task[t].result.success
              /\ task[t].waited = 30

\* C10 as stated: a task whose 3 attempts all failed ends in
\* (False, key, None), and the in-memory and persisted Cache Store are the
\* same as before the task started.
C10_StoreAsAtStart ==
    \A t \in Tasks :
        Exhausted(t) =>
            /\ task[t].result = Return(FALSE, spaces_to_export[t], None)
            /\ task[t].commits = 0
            /\ export_cache = task[t].start.cache
            /\ cache_file = task[t].start.file

\* C10, amended: a task whose 3 attempts all failed ends in
\* (False, key, None) after exactly 3 GETs and commits nothing: it neither
\* inserts nor saves, no entry for its fingerprint is in the map or the
\* file, and the map still holds every entry it held when the task started.
C10_Exhaustion ==
    \A t \in Tasks :
        Exhausted(t) =>
            /\ task[t].result = Return(FALSE, spaces_to_export[t], None)
            /\ task[t].gets = max_retries
            /\ task[t].commits = 0 /\ task[t].saves = 0
            /\ task[t].cache_key \notin DOMAIN export_cache.map
            /\ task[t].cache_key \notin DOMAIN cache_file.map
            /\ \A ck \in DOMAIN task[t].start.cache.map :
                  /\ ck \in DOMAIN export_cache.map
                  /\ export_cache.map[ck] = task[t].start.cache.map[ck]

\* a task has run out of attempts while a sibling committed
C10_Witness ==
    \E t \in Tasks :
        /\ Exhausted(t)
        /\ export_cache # task[t].start.cache

\* C11: a task whose export request returned no URL ends at once in
\* (False, key, None): one export request, no GET, no backoff wait, no file
\* written, no cache insert or save, no entry for its fingerprint; and when
\* the run returns, its key is in failed_spaces.
C11_NoExportUrl ==
    \A t \in Tasks :
        task[t].export_url = "none" =>
            /\ task[t].pc = "done"
            /\ task[t].result = Return(FALSE, spaces_to_export[t], None)
            /\ task[t].requests = 1 /\ task[t].gets = 0
            /\ task[t].retry_count = 0 /\ task[t].waited = 0
            /\ ~task[t].wrote
            /\ task[t].commits = 0 /\ task[t].saves = 0
            /\ task[t].cache_key \notin DOMAIN export_cache.map
            /\ phase = "returned" =>
                  \E i \in 1..Len(failed_spaces) :
                      failed_spaces[i] = spaces_to_export[t]

\* a run has returned in which one item got no URL while another was
\* downloaded and committed
C11_Witness ==
    /\ phase = "returned"
    /\ \E t \in Tasks : task[t].export_url = "none"
    /\ \E t \in Tasks : task[t].commits = 1

\* C12: the process ends with code 0 exactly when every item of the work set
\* ended in success, and with a non-zero code when an item failed, an
\* exception that left its task included.
C12_ExitCode ==
    phase = "exited" =>
        (exit_code = 0 <=>
            \A t \in Tasks :
                task[t].result.kind = "return" /\ task[t].result.success)

\* an Export Task that has not started does not start
NoTaskStarts ==
    \A t \in Tasks : task[t].pc = "pending" => task'[t].pc = "pending"

\* C13: once the interrupt has arrived, no Export Task that had not started
\* is started: the process goes to its exit with status 130 without running
\* the items still queued.
C13_Cancellation ==
    [][(phase = "shutdown" \/ (phase = "exited" /\ exit_code = 130))
          => NoTaskStarts]_vars

\* export_all_spaces is past its filters
FilterDone == phase \in {"running", "returned"}

\* the work set lists spaces in discovery order, each once
InDiscoveryOrder ==
    \A i, j \in 1..Len(spaces_to_export) :
        i < j => spaces_to_export[i] < spaces_to_export[j]

\* the keys of the work set
WorkKeys == {spaces_to_export[i] : i \in 1..Len(spaces_to_export)}

\* a discovered space that the default filters let through
PassesDefaultFilters(s) ==
    /\ s.type \in {"personal", "PERSONAL"} => include_personal
    /\ s.status \in {"archived", "ARCHIVED"} => include_archived

\* C14: with no allow-list, the work set is, in discovery order, exactly the
\* discovered spaces that are not personal while include_personal is false
\* and not archived while include_archived is false; [A shared/active,
\* B personal/active, C shared/archived] with both flags false gives [A].
C14_DefaultFilters ==
    (FilterDone /\ specific_spaces = None) =>
        /\ InDiscoveryOrder
        /\ WorkKeys = {all_spaces[i].key : i \in
                          {j \in 1..Len(all_spaces) :
                              PassesDefaultFilters(all_spaces[j])}}
        /\ (all_spaces = Inventory(3, 0) /\ ~include_personal
                /\ ~include_archived) => spaces_to_export = <<1>>

\* the three spaces of the example were discovered and filtered with the
\* default flags
C14_Witness ==
    /\ phase = "running" /\ specific_spaces = None
    /\ ~include_personal /\ ~include_archived
    /\ all_spaces = Inventory(3, 0)
    /\ spaces_to_export = <<1>>

\* the keys of the allow-list
SpecificKeys == {specific_spaces[i] : i \in 1..Len(specific_spaces)}

\* C15: with an allow-list, the work set is exactly the discovered spaces
\* whose key is in the list, in discovery order, whatever their kind and
\* status; the three spaces A, B (personal), C (archived) with the list
\* [B, C] give [B, C].
C15_AllowList ==
    (FilterDone /\ specific_spaces # None) =>
        /\ InDiscoveryOrder
        /\ WorkKeys = {all_spaces[i].key : i \in 1..Len(all_spaces)}
                          \cap SpecificKeys
        /\ (all_spaces = Inventory(3, 0) /\ specific_spaces = <<2, 3>>)
              => spaces_to_export = <<2, 3>>

\* the personal space B and the archived space C were asked for by key and
\* are the work set
C15_Witness ==
    /\ phase = "running"
    /\ all_spaces = Inventory(3, 0)
    /\ is_personal(all_spaces[2]) /\ is_archived(all_spaces[3])
    /\ specific_spaces = <<2, 3>>
    /\ spaces_to_export = <<2, 3>>

\* C16: once a paging call has failed, by raising or by returning nothing
\* usable, export_all_spaces neither creates Export Tasks from the pages
\* fetched before nor returns a summary, and the process does not end with
\* status 0.
C16_DiscoveryAllOrNothing ==
    fault # "none" =>
        /\ phase \notin {"running", "returned"}
        /\ phase = "exited" => exit_code # 0

\* the cache file write of the task's commit failed
PersistFailed(t) ==
    task[t].pc = "done" /\ task[t].commits = 1 /\ task[t].saves = 0

\* C17: a task whose cache file write failed still ends in success with its
\* artifact path, its entry stays in the in-memory map (so that a lookup of
\* its fingerprint hits for the rest of the run), and the run counts it as a
\* success.
C17_PersistFailure ==
    \A t \in Tasks :
        PersistFailed(t) =>
            /\ task[t].result = Return(TRUE, spaces_to_export[t],
                                       OutputFile(spaces_to_export[t]))
            /\ export_cache.shape = "dict"
            /\ task[t].cache_key \in DOMAIN export_cache.map
            /\ export_cache.map[task[t].cache_key] = task[t].result.file_path
            /\ phase = "returned" =>
                  /\ successful_exports >= 1
                  /\ \A i \in 1..Len(failed_spaces) :
                        failed_spaces[i] # spaces_to_export[t]

\* a run has returned in which one task's cache file write failed and
\* another task's write went through
C17_Witness ==
    /\ phase = "returned"
    /\ \E t \in Tasks : PersistFailed(t)
    /\ \E t \in Tasks : task[t].saves = 1

\* C18: whatever export_cache.json held when the run loaded it, no Export
\* Task fails because of it: none ends by an exception, and a task whose
\* download was clean ends in success.
C18_LoadFailure ==
    \A t \in Tasks :
        task[t].pc = "done" =>
            /\ task[t].result.kind # "raise"
            /\ task[t].last = "clean" =>
                  task[t].result.kind = "return" /\ task[t].result.success

\* the characters [A-Za-z0-9._- ]
AsciiClass == AsciiLetters \cup AsciiDigits \cup KeptPunctuation

\* C19 as stated: the sanitized name has the length of the name, keeps the
\* characters of [A-Za-z0-9._- ] and replaces every other one by "_", and
\* the file name has no character outside [A-Za-z0-9._- ].
C19_AsciiOnly ==
    output_file # None =>
        /\ Len(output_file.safe_name) = Len(space.name)
        /\ \A i \in 1..Len(space.name) :
              output_file.safe_name[i] =
                 IF space.name[i] \in AsciiClass THEN space.name[i] ELSE "_"
        /\ \A i \in 1..Len(output_file.path) :
              output_file.path[i] \in AsciiClass

\* C19, amended: the sanitized name has the length of the name, keeps each
\* character that is a letter or digit (of any script) or one of "._- " and
\* replaces every other one by "_"; the file name is the key as it is, "_",
\* the sanitized name and ".html.zip"; when the name has only ASCII
\* characters, the sanitized name has none outside [A-Za-z0-9._- ].
C19_Sanitized ==
    output_file # None =>
        /\ Len(output_file.safe_name) = Len(space.name)
        /\ \A i \in 1..Len(space.name) :
              LET c == space.name[i] IN
              output_file.safe_name[i] =
                 IF c \in AsciiClass \cup OtherLetters THEN c ELSE "_"
        /\ Len(output_file.path) =
              Len(space.key) + 1 + Len(space.name) + 9
        /\ SubSeq(output_file.path, 1, Len(space.key)) = space.key
        /\ SubSeq(output_file.path, Len(space.key) + 2,
                  Len(space.key) + 1 + Len(space.name)) = output_file.safe_name
        /\ (\A i \in 1..Len(space.name) : space.name[i] \notin OtherLetters)
              => \A i \in 1..Len(space.name) :
                    output_file.safe_name[i] \in AsciiClass

\* the file of the space named My/Space: "2024" has been named
C19_Witness ==
    /\ output_file # None
    /\ space.name = ExampleName
    /\ output_file.safe_name =
          <<"M", "y", "_", "S", "p", "a", "c", "e", "_", " ",
            "_", "2", "0", "2", "4", "_">>

\* the failures of a download attempt that the contract retries
TransientFailures == {"non200", "short", "client_error"}

\* The outcome the contract gives a finished task for what it met: the cache
\* as it was at its start, the answer to its export request and the
\* responses to its GETs.
ContractOutcome(t) ==
    LET tk == task[t]
        key == spaces_to_export[t]
        store == tk.start.cache
    IN  IF store.shape = "dict" /\ tk.cache_key \in DOMAIN store.map
        THEN Return(TRUE, key, store.map[tk.cache_key])
        ELSE IF tk.export_url = "url" /\ tk.last = "clean"
                  /\ store.shape = "dict"
        THEN Return(TRUE, key, OutputFile(key))
        ELSE Return(FALSE, key, None)

\* the keys of the finished tasks that did not end in success
KeysNotExported ==
    {spaces_to_export[t] : t \in
        {u \in Tasks : task[u].pc = "done" /\ ~task[u].result.success}}

\* C20: the two realizations realize one contract.  Whatever the
\* realization, a task that returned has the outcome the contract gives for the
\* same cache, export answer and responses, it gave up on a transient
\* failure only after max_retries GETs, the map holds an entry for its
\* fingerprint exactly when that outcome is a success, and the summary of a
\* run that returned counts the successes and lists the other keys.
C20_SameContract ==
    /\ \A t \in Tasks :
          (task[t].pc = "done" /\ task[t].result.kind = "return") =>
             /\ task[t].result = ContractOutcome(t)
             /\ task[t].last \in TransientFailures =>
                   task[t].gets = max_retries
             /\ task[t].cache_key \in DOMAIN export_cache.map
                   <=> ContractOutcome(t).success
    /\ phase = "returned" =>
          /\ successful_exports =
                Cardinality({t \in Tasks : ContractOutcome(t).success})
          /\ {failed_spaces[i] : i \in 1..Len(failed_spaces)} = KeysNotExported

\* the 86400-second bucket that holds tick t
DayOf(t) ==
    CHOOSE d \in 0..MaxTime :
        /\ d * 86400 <= t * TickSeconds
        /\ t * TickSeconds < (d + 1) * 86400

\* export_space begins for task t: it leaves the queue (and was not
\* cancelled there)
Starts(t) ==
    task[t].pc = "pending" /\ task'[t].pc \notin {"pending", "cancelled"}

\* the task went past the cache check into the export request
FullExport(tk) ==
    /\ tk.result # Return(TRUE, tk.result.space_key, tk.result.file_path)
    /\ IF impl = "thread" THEN tk.pc = "request" /\ tk.requests = 0
       ELSE tk.requests = 1

\* a later run begins
RunBegins == run' = run + 1

\* C21 as stated: an entry committed in bucket d is a cache hit for every
\* later task of that key started in bucket d: no step removes an entry from
\* the map, and the map a later run starts with holds the entry of every
\* task that committed.
C21_EntryOutlivesRun ==
    [][/\ \A ck \in DOMAIN export_cache.map : ck \in DOMAIN export_cache'.map
       /\ RunBegins =>
             \A t \in Tasks :
                 task[t].commits = 1 =>
                     task[t].cache_key \in DOMAIN export_cache'.map]_vars

\* C21, amended: the fingerprint of a task is its key and the bucket of the
\* moment it starts.  A task that starts while the map holds its fingerprint
\* is a cache hit; one that starts while the map does not, whatever entries
\* of earlier buckets the map holds, goes on to the export request.  Within
\* a run no entry leaves the map, and a later run starts with the entries of
\* the cache file it finds.
C21_BucketScoping ==
    [][/\ \A t \in Tasks :
             Starts(t) =>
                LET k == spaces_to_export[t]
                    ck == <<k, DayOf(now)>>
                IN  /\ task'[t].cache_key = ck
                    /\ export_cache.shape = "dict" =>
                          IF ck \in DOMAIN export_cache.map
                          THEN /\ task'[t].pc = "done"
                               /\ task'[t].result =
                                     Return(TRUE, k, export_cache.map[ck])
                               /\ task'[t].requests = 0
                          ELSE FullExport(task'[t])
       /\ ~RunBegins =>
             \A ck \in DOMAIN export_cache.map :
                 /\ ck \in DOMAIN export_cache'.map
                 /\ export_cache'.map[ck] = export_cache.map[ck]
       /\ RunBegins =>
             export_cache'.map =
                 IF cache_file.shape = "dict" THEN cache_file.map
                 ELSE EmptyMap]_vars

\* a task started in bucket 1 while the map held the entry of its key for
\* bucket 0, and exported and downloaded the space again
C21_Witness ==
    \E t \in Tasks :
        /\ task[t].cache_key = <<spaces_to_export[t], 1>>
        /\ <<spaces_to_export[t], 0>> \in DOMAIN task[t].start.cache.map
        /\ task[t].requests = 1 /\ task[t].gets >= 1
        /\ task[t].commits = 1

\* the paging loop has ended without a failed call
PagingEnded == phase # "discovery" /\ fault = "none"

\* the offset and the page of the last call
LastCall == calls[Len(calls)]

\* what is true of the calls made and the items collected so far
C22_Pages ==
    /\ \A i \in 1..Len(calls) : calls[i] = 50 * (i - 1)
    /\ Len(all_spaces) <= Len(inventory)
    /\ all_spaces = SubSeq(inventory, 1, Len(all_spaces))
    /\ \A i, j \in 1..Len(all_spaces) :
          i # j => all_spaces[i].key # all_spaces[j].key
    /\ phase = "discovery" =>
          /\ start = 50 * Len(calls)
          /\ Len(all_spaces) = 50 * Len(calls)
    /\ PagingEnded =>
          /\ all_spaces = inventory
          /\ Len(Page(LastCall)) < 50
          /\ \A i \in 1..(Len(calls) - 1) : Len(Page(calls[i])) = 50
          /\ (Len(inventory) > 0 /\ Len(inventory) % 50 = 0) =>
                /\ Len(calls) = (Len(inventory) \div 50) + 1
                /\ Page(LastCall) = <<>>

\* C22: discovery asks for the pages at offsets 0, 50, 100, ... and stops at
\* the first page that is empty or has fewer than 50 items; what it
\* collected is the pages fetched, in order, each item once; an inventory
\* of a positive multiple of 50 items costs one more call, which returns an
\* empty page; and the loop ends once the remote has answered each call.
C22_Pagination ==
    /\ []C22_Pages
    /\ (phase = "discovery") ~> (phase # "discovery")

\* an inventory of 100 spaces was paged through with three calls
C22_Witness ==
    /\ PagingEnded
    /\ Len(inventory) = 100
    /\ calls = <<0, 50, 100>>
    /\ all_spaces = inventory

\* the coroutines inside the `async with self.semaphore` block: suspended in
\* a download attempt or in a backoff wait
InsideSemaphore == {t \in Tasks : task[t].pc \in {"get", "sleep"}}

\* the permits taken from self.semaphore
HeldSlots == max_workers - semaphore

\* a task comes to the end of export_space
Finishes(t) == task[t].pc # "done" /\ task'[t].pc = "done"

\* C23: in the cooperative realization the permits held are as many as the
\* tasks inside export_space, and none is held once every task has ended.
C23_SlotsHeld ==
    impl = "async" =>
        /\ HeldSlots = Cardinality(InsideSemaphore)
        /\ (\A t \in Tasks : task[t].pc = "done") => HeldSlots = 0

\* C23: a task takes its permit in the step that does its cache check, keeps
\* it through the export request, every download attempt and every backoff
\* wait, and gives it back in the step that ends it, whichever way it ends.
C23_SlotSteps ==
    impl = "async" =>
        \A t \in Tasks :
            /\ (Starts(t) /\ ~Finishes(t)) => semaphore' = semaphore - 1
            /\ (Starts(t) /\ Finishes(t)) =>
                  semaphore > 0 /\ semaphore' = semaphore
            /\ (task[t].pc \in {"get", "sleep"} /\ Finishes(t)) =>
                  semaphore' = semaphore + 1
            /\ (task[t].pc \in {"get", "sleep"} /\ task'[t] # task[t]
                    /\ task'[t].pc \in {"get", "sleep"}) =>
                  semaphore' = semaphore

C23_SlotDiscipline == []C23_SlotsHeld /\ [][C23_SlotSteps]_vars

\* every task of a cooperative run has ended and every permit is back: one
\* task left by an exception or a cache hit, another after three attempts
\* and two backoff waits
C23_Witness ==
    /\ impl = "async" /\ Len(spaces_to_export) = 2
    /\ \A t \in Tasks : task[t].pc = "done"
    /\ \E t \in Tasks : task[t].requests = 0
    /\ \E t \in Tasks : task[t].gets = max_retries /\ task[t].waited = 30
    /\ semaphore = max_workers

\* the backoff waits a task has begun: 10 seconds, then 20
Waits(tk) ==
    CASE tk.waited = 0 -> 0
      [] tk.waited = 10 -> 1
      [] tk.waited = 30 -> 2
      [] OTHER -> 3

\* what one Export Task has spent so far
C24_Budget ==
    \A t \in Tasks :
        /\ task[t].requests <= 1
        /\ task[t].gets <= 3
        /\ Waits(task[t]) <= 2
        /\ task[t].commits <= 1
        /\ task[t].gets >= 1 => task[t].export_url = "url"
        \* a wait is always followed by another attempt
        /\ task[t].pc = "sleep" => task[t].gets < 3
        /\ task[t].pc = "done" => Waits(task[t]) < task[t].gets \/ task[t].gets = 0

\* the URL a task got is the one it keeps, and it asks for no other
C24_SameUrl ==
    \A t \in Tasks :
        (task[t].requests >= 1 /\ ~RunBegins) =>
            /\ task'[t].export_url = task[t].export_url
            /\ task'[t].requests = task[t].requests

\* C24: in any execution one Export Task requests the export at most once
\* and uses that URL for every attempt, issues at most 3 GETs, performs at
\* most 2 backoff waits and none after its last failed attempt, and commits
\* to the cache at most once.
C24_RequestBudget == []C24_Budget /\ [][C24_SameUrl]_vars

\* a cooperative run in which one task spent its whole budget without
\* success and another committed on its third attempt
C24_Witness ==
    /\ impl = "async"
    /\ \E t \in Tasks :
          /\ task[t].pc = "done" /\ ~task[t].result.success
          /\ task[t].requests = 1 /\ task[t].gets = 3
          /\ Waits(task[t]) = 2 /\ task[t].commits = 0
    /\ \E t \in Tasks :
          /\ task[t].pc = "done" /\ task[t].result.success
          /\ task[t].requests = 1 /\ task[t].gets = 3
          /\ task[t].commits = 1

\* the keys of the spaces discovery returned
DiscoveredKeys == {all_spaces[i].key : i \in 1..Len(all_spaces)}

\* the keys of the allow-list that discovery did not return
AbsentKeys == SpecificKeys \ DiscoveredKeys

\* export_all_spaces is past its filters
PastFilters == phase \in {"running", "returned"} \/ (phase = "exited" /\ fault # "raises")

\* C25: a key of the allow-list that discovery did not return starts no
\* Export Task and is counted neither as a success nor as a failure; a run
\* whose requested keys are all absent returns (0, []) and the process ends
\* with status 0.
C25_AbsentKeys ==
    (specific_spaces # None /\ PastFilters) =>
        /\ \A t \in Tasks : spaces_to_export[t] \notin AbsentKeys
        /\ Len(spaces_to_export) = Cardinality(SpecificKeys \cap DiscoveredKeys)
        /\ \A i \in 1..Len(failed_spaces) : failed_spaces[i] \notin AbsentKeys
        /\ successful_exports + Len(failed_spaces) <= Len(spaces_to_export)
        /\ SpecificKeys \cap DiscoveredKeys = {} =>
              /\ spaces_to_export = <<>>
              /\ phase # "running"
              /\ successful_exports = 0 /\ failed_spaces = <<>>
              /\ phase = "exited" => exit_code = 0

\* the instance has spaces, none of them asked for, and the process has
\* ended
C25_Witness ==
    /\ specific_spaces # None
    /\ fault = "none" /\ all_spaces # <<>>
    /\ SpecificKeys \cap DiscoveredKeys = {}
    /\ phase = "exited"
    /\ exit_code = 0

====
